---- MODULE Spec2Model ----
(***************************************************************************)
(* Model of the eyeglasses-frame pipeline of src/script/run.py             *)
(* (create_eyeglasses_from_svg).                                           *)
(*                                                                         *)
(* Lengths are fixed-point integers: one millimetre is Unit model units.   *)
(* A mesh is a sequence of vertices (the index of a vertex is its          *)
(* position in the sequence, as in mesh.vertices) and a sequence of edges  *)
(* (pairs of vertex indices).  Slants are rationals [n, d].                *)
(***************************************************************************)
EXTENDS Integers, Sequences, FiniteSets, TLC

\* ------------------------------------------------------------------ bounds
\* bridge_width ranges over 2*k mm, k in 1..MaxHalfWidth
MaxHalfWidth == 2
\* bridge_slant ranges over k/2, k in 1..MaxSlantNum
MaxSlantNum == 2
\* the base solid spans x in -HalfLen..HalfLen mm
HalfLen == 6
\* ... and z in -ZBot..ZTop mm
ZTop == 2
ZBot == 4
\* the bar-shaped base solid reaches down to z = -BarBot only
BarBot == 2
\* the frame-shaped base solid: the bridge band is z >= BridgeZ, the nose
\* gap is |x| < NoseHalf below it
BridgeZ == 1
NoseHalf == 3

\* fixed-point resolution: model units per millimetre
Unit == 10 * 10

\* ------------------------------------------------------------- arithmetic
Abs(a) == IF a < 0 THEN -a ELSE a

Sgn(a) == IF a < 0 THEN -1 ELSE IF a > 0 THEN 1 ELSE 0

\* a * b / c rounded toward zero, c > 0 (fixed-point product of a length
\* and a ratio b/c)
MulDiv(a, b, c) == Sgn(a) * Sgn(b) * ((Abs(a) * Abs(b)) \div c)

Indices(s) == 1..Len(s)

Range(s) == {s[i] : i \in Indices(s)}

\* the elements of a sequence of distinct naturals, in the same order, as
\* the map from element to position
PositionOf(s) == [e \in Range(s) |-> CHOOSE r \in Indices(s) : s[r] = e]

RECURSIVE ISqrtIn(_, _, _)
ISqrtIn(n, lo, hi) ==
    IF lo >= hi THEN lo
    ELSE LET mid == (lo + hi + 1) \div 2
         IN IF mid * mid <= n THEN ISqrtIn(n, mid, hi) ELSE ISqrtIn(n, lo, mid - 1)

\* floor of the square root
ISqrt(n) == ISqrtIn(n, 0, 40000)

MinOf(S) == CHOOSE m \in S : \A e \in S : m <= e

MaxOf(S) == CHOOSE m \in S : \A e \in S : m >= e

\* --------------------------------------------------------------- geometry
Objects == {"bridge", "left", "right"}

Vertex(x, y, z, piece) == [x |-> x, y |-> y, z |-> z, nm |-> FALSE, of |-> piece]

Coord(v) == [x |-> v.x, y |-> v.y, z |-> v.z]

CoordsOf(V) == {Coord(V[i]) : i \in DOMAIN V}

\* the profile of the base solid, in millimetres
InProfile(shape, x, z) ==
    /\ x \in -HalfLen..HalfLen
    /\ IF shape = "bar"
       THEN z \in -BarBot..ZTop
       ELSE /\ z \in -ZBot..ZTop
            /\ (z >= BridgeZ \/ Abs(x) >= NoseHalf)

Shapes == {"bar", "frame"}

NX == 2 * HalfLen + 1

NZ == ZTop + ZBot + 1

\* lattice point number k (0-based), rows along x: layer, then z, then x
LatticeX(k) == (k % NX) - HalfLen

LatticeZ(k) == ((k \div NX) % NZ) - ZBot

LatticeY(k) == IF k \div (NX * NZ) = 0 THEN -1 ELSE 1

LatticeIds(shape) ==
    SelectSeq([k \in 1..(2 * NX * NZ) |-> k - 1],
              LAMBDA k : InProfile(shape, LatticeX(k), LatticeZ(k)))

\* the extruded, welded solid: two layers (front y < 0, back y > 0) of the
\* profile's lattice points
\* (as extruded the profile lies in the x-y plane and the layers along z;
\* rotate_object turns it upright)
SolidVerts(shape, piece) ==
    LET ids == LatticeIds(shape)
    IN [i \in Indices(ids) |->
           Vertex(Unit * LatticeX(ids[i]), Unit * LatticeZ(ids[i]),
                  -Unit * LatticeY(ids[i]), piece)]

\* its edges run along x between neighbouring lattice points of a row
SolidEdges(shape) ==
    LET ids == LatticeIds(shape)
        linked == SelectSeq([i \in 1..(Len(ids) - 1) |-> i],
                            LAMBDA i : /\ ids[i + 1] = ids[i] + 1
                                       /\ LatticeX(ids[i]) < HalfLen)
    IN [r \in Indices(linked) |-> <<linked[r], linked[r] + 1>>]

\* --------------------------------------------------------------- bisection
Rat(n, d) == [n |-> n, d |-> d]

\* (vertex - plane_co) . plane_no for plane_co = (x_coord, 0, z_translation)
\* and plane_no = (1, 0, z_tilt), times the positive number
\* z_tilt.d * z_translation.d: its sign tells the side of the plane
PlaneSide(v, x_coord, z_tilt, z_translation) ==
    z_tilt.d * z_translation.d * (v.x - x_coord)
        + z_tilt.n * (z_translation.d * v.z - z_translation.n)

\* what bpy.ops.mesh.bisect keeps: clear_inner deletes the negative side,
\* clear_outer the positive side; the plane itself is always kept
Cleared(side, clear_inner, clear_outer) ==
    (clear_inner /\ side < 0) \/ (clear_outer /\ side > 0)

\* the point where the edge from p to q meets the plane, sp and sq being
\* the (opposite-signed) sides of p and q
CutPoint(p, q, sp, sq) ==
    LET a == Abs(sp)
        b == Abs(sp) + Abs(sq)
    IN [p EXCEPT !.x = p.x + MulDiv(q.x - p.x, a, b),
                 !.y = p.y + MulDiv(q.y - p.y, a, b),
                 !.z = p.z + MulDiv(q.z - p.z, a, b),
                 !.nm = FALSE]

\* bisect(x_coord, clear_inner, clear_outer, z_tilt, z_translation) on the
\* mesh [verts, edges]: every edge crossing the plane gets a new vertex (appended
\* to the vertices), then the cleared side is deleted and the vertices left
\* are renumbered; the vertices on the plane of a clearing cut form the open
\* (non-manifold) boundary loop; the cut is what the operator leaves selected
Bisect(mesh, x_coord, clear_inner, clear_outer, z_tilt, z_translation) ==
    LET V == mesh.verts
        E == mesh.edges
        n == Len(V)
        S == [i \in 1..n |-> PlaneSide(V[i], x_coord, z_tilt, z_translation)]
        crossing == SelectSeq([k \in Indices(E) |-> k],
                              LAMBDA k : Sgn(S[E[k][1]]) * Sgn(S[E[k][2]]) < 0)
        m == Len(crossing)
        pos == PositionOf(crossing)
        V1 == V \o [j \in 1..m |->
                       LET e == E[crossing[j]]
                       IN CutPoint(V[e[1]], V[e[2]], S[e[1]], S[e[2]])]
        S1 == S \o [j \in 1..m |-> 0]
        E1 == [k \in Indices(E) |->
                  IF k \in DOMAIN pos THEN <<E[k][1], n + pos[k]>> ELSE E[k]]
              \o [j \in 1..m |-> <<n + j, E[crossing[j]][2]>>]
        kept == SelectSeq([i \in 1..(n + m) |-> i],
                          LAMBDA i : ~Cleared(S1[i], clear_inner, clear_outer))
        renum == PositionOf(kept)
        keptEdges == SelectSeq(E1, LAMBDA e : e[1] \in DOMAIN renum /\ e[2] \in DOMAIN renum)
    IN IF ~(clear_inner \/ clear_outer)
       THEN [verts |-> V1, edges |-> E1, cut |-> {i \in 1..(n + m) : S1[i] = 0}]
       ELSE [cut |-> {r \in Indices(kept) : S1[kept[r]] = 0},
             verts |-> [r \in Indices(kept) |->
                           IF S1[kept[r]] = 0
                           THEN [V1[kept[r]] EXCEPT !.nm = TRUE]
                           ELSE V1[kept[r]]],
             edges |-> [k \in Indices(keptEdges) |->
                           <<renum[keptEdges[k][1]], renum[keptEdges[k][2]]>>]]

\* ------------------------------------------------------------ deformation
RECURSIVE SumRange(_, _, _)
SumRange(f, lo, hi) ==
    IF lo > hi THEN 0
    ELSE IF lo = hi THEN f[lo]
    ELSE LET mid == (lo + hi) \div 2
         IN SumRange(f, lo, mid) + SumRange(f, mid + 1, hi)

SumOf(f, n) == SumRange(f, 1, n)

\* a / b rounded to the nearest integer, b > 0
RoundDiv(a, b) ==
    IF a >= 0 THEN (2 * a + b) \div (2 * b) ELSE -((2 * (-a) + b) \div (2 * b))

Zero3 == [x |-> 0, y |-> 0, z |-> 0]

\* the centre of mass of a mesh, taken as the mean of its vertices to the
\* nearest millimetre
CenterOfMass(V) ==
    LET n == Len(V)
    IN IF n = 0 THEN Zero3
       ELSE [x |-> Unit * RoundDiv(SumOf([i \in 1..n |-> V[i].x], n), n * Unit),
             y |-> Unit * RoundDiv(SumOf([i \in 1..n |-> V[i].y], n), n * Unit),
             z |-> Unit * RoundDiv(SumOf([i \in 1..n |-> V[i].z], n), n * Unit)]

Shift(V, d) ==
    [i \in Indices(V) |-> [V[i] EXCEPT !.x = @ + d.x, !.y = @ + d.y, !.z = @ + d.z]]

Minus(d) == [x |-> -d.x, y |-> -d.y, z |-> -d.z]

Plus(a, b) == [x |-> a.x + b.x, y |-> a.y + b.y, z |-> a.z + b.z]

\* bpy.ops.transform.rotate(value=1.570797, constraint_axis=(False, True, True)):
\* a quarter turn about the x axis
RotateVerts(V) == [i \in Indices(V) |-> [V[i] EXCEPT !.y = -V[i].z, !.z = V[i].y]]

\* squared distance between two vertices
Dist2(p, q) ==
    (p.x - q.x) * (p.x - q.x) + (p.y - q.y) * (p.y - q.y) + (p.z - q.z) * (p.z - q.z)

\* distance from vertex i to the nearest selected vertex
DistToSelection(V, selected, i) ==
    ISqrt(MinOf({Dist2(V[i], V[j]) : j \in selected}))

\* proportional_edit_falloff="SMOOTH": the weight in percent of a vertex at
\* distance dist from the selection, 3t^2 - 2t^3 for t = 1 - dist / size
SmoothFalloff(dist, size) ==
    IF dist >= size THEN 0
    ELSE LET t == 100 - (100 * dist) \div size
         IN (300 * t * t - 2 * t * t * t) \div 10000

\* bpy.ops.transform.translate(value, proportional="ENABLED",
\* proportional_size=size) in EDIT mode: the selected vertices move by value,
\* the others by value weighted by the falloff; nothing selected, nothing moves
ProportionalTranslate(V, selected, value, size) ==
    IF selected = {} THEN V
    ELSE [i \in Indices(V) |->
             LET w == SmoothFalloff(DistToSelection(V, selected, i), size)
             IN [V[i] EXCEPT !.x = @ + MulDiv(value.x, w, 100),
                             !.y = @ + MulDiv(value.y, w, 100),
                             !.z = @ + MulDiv(value.z, w, 100)]]

\* the normal of a vertex of the extruded solid: out of the front layer
\* (y < 0) or out of the back layer (y > 0)
NormalY(v) == Sgn(v.y)

\* bpy.ops.transform.shrink_fatten(value, proportional="ENABLED",
\* proportional_size=size): as above, along each vertex's normal
ProportionalShrinkFatten(V, selected, value, size) ==
    IF selected = {} THEN V
    ELSE [i \in Indices(V) |->
             LET w == SmoothFalloff(DistToSelection(V, selected, i), size)
             IN [V[i] EXCEPT !.y = @ + NormalY(V[i]) * MulDiv(value, w, 100)]]

in_range(max_val, min_val, val) == (val <= max_val) /\ (val >= min_val)

\* ------------------------------------------------------------------ state
VARIABLES
    pc,                 \* the next step of create_eyeglasses_from_svg
    cur,                \* the lens piece being formed, merged or stitched
    shape,              \* which base solid was loaded
    bridge_width,       \* parameters of create_eyeglasses_from_svg
    bridge_slant,
    nosepad_shrink_amount,
    exists,             \* the objects of the scene
    verts,              \* per object: mesh.vertices, in local coordinates
    edges,              \* per object: mesh.edges
    loc,                \* per object: object.location
    sel,                \* per object: the indices of the selected vertices
    active,             \* bpy.context.scene.objects.active
    picked,             \* the selected objects
    mode,               \* "OBJECT" or "EDIT"
    bottom_of_bridge,   \* local of form_lens_and_bridge
    xrange,             \* per lens: max_x, min_x of create_*_nosepad
    cache,              \* per lens: non_nosepad_vertices_map
    peak,               \* per lens: bottom_of_nosepad, max_z, min_z
    stage,              \* per lens: how far its nosepad has come
    deformed,           \* per lens: the selection each deform call was applied to
    before,             \* per lens: the vertices as reset_normal_vertices found them
    gap,                \* local of form_lens_and_bridge
    stitched,           \* the seams bridge_gap has closed
    log,                \* the operations run so far, in order
    solid,              \* the vertex positions of the base solid, when duplicated
    after_cut,          \* per object: the vertex positions its clearing cuts left
    unaligned,          \* per object: its location when align was entered
    loops,              \* per lens: the sizes of the two loops bridge_gap was given
    cuts,               \* the arguments of the calls of bisect that were noted
    ran                 \* the operators and writes of the last stage, each with
                        \* the mode and the active object it found

params == <<shape, bridge_width, bridge_slant, nosepad_shrink_amount>>

scene == <<exists, verts, edges, loc, sel, active, picked, mode>>

nosepad == <<xrange, cache, peak, stage, deformed, before>>

history == <<solid, after_cut, unaligned, loops, cuts>>

vars == <<pc, cur, params, scene, bottom_of_bridge, nosepad, gap, stitched, log,
          history, ran>>

Lenses == {"left", "right"}

Unset == [set |-> FALSE, val |-> 0]

Value(v) == [set |-> TRUE, val |-> v]

\* default arguments of create_eyeglasses_from_svg
LensBendMilli == 262
FrameBendMilli == 349
BridgeProtrusion == -80

BridgeWidths == {2 * k * Unit : k \in 1..MaxHalfWidth}

BridgeSlants == {Rat(k, 2) : k \in 1..MaxSlantNum}

ShrinkAmounts == {-50, 30}

\* The SVG curve is loaded and active; it becomes the object that
\* duplicate_object later returns last.
Init ==
    /\ pc = "create_mesh_from_svg"
    /\ cur = "none"
    /\ shape \in Shapes
    /\ bridge_width \in BridgeWidths
    /\ bridge_slant \in BridgeSlants
    /\ nosepad_shrink_amount \in ShrinkAmounts
    /\ exists = {"right"}
    /\ verts = [o \in Objects |-> <<>>]
    /\ edges = [o \in Objects |-> <<>>]
    /\ loc = [o \in Objects |-> Zero3]
    /\ sel = [o \in Objects |-> {}]
    /\ active = "right"
    /\ picked = {"right"}
    /\ mode = "OBJECT"
    /\ bottom_of_bridge = Unset
    /\ xrange = [s \in Lenses |-> Unset]
    /\ cache = [s \in Lenses |-> <<>>]
    /\ peak = [s \in Lenses |-> Unset]
    /\ stage = [s \in Lenses |-> "Idle"]
    /\ deformed = [s \in Lenses |-> <<>>]
    /\ before = [s \in Lenses |-> <<>>]
    /\ gap = Unset
    /\ stitched = {}
    /\ log = <<>>
    /\ solid = {}
    /\ after_cut = [o \in Objects |-> Unset]
    /\ unaligned = [o \in Objects |-> Zero3]
    /\ loops = [s \in Lenses |-> Unset]
    /\ cuts = <<>>
    /\ ran = <<>>

\* number_of_segments of get_spread_for_bridge, number_of_loops of
\* increase_resolution_for_bending
NumberOfSegments == 20

NumberOfLoops == 13

\* ---------------------------------------------------------- ambient state
\* What a function of the script asks of the host, in order: a mode_set, a new
\* active object, an operator on the vertices of the mesh in hand (bpy.ops.mesh
\* and the transforms of EDIT mode), an operator on whole objects, or an
\* assignment to a vertex's select or co, through object.data.vertices or
\* through the edit mesh of bmesh.from_edit_mesh.
mode_set(m) == [kind |-> "mode_set", arg |-> m]

activate(o) == [kind |-> "activate", arg |-> o]

mesh_op(name) == [kind |-> "mesh", arg |-> name]

object_op(name) == [kind |-> "object", arg |-> name]

\* object.select_all(action='DESELECT') acts on every object of the scene,
\* whichever is active
scene_op(name) == [kind |-> "scene", arg |-> name]

write(through) == [kind |-> "write", arg |-> through]

\* n times the steps s
Repeat(s, n) == [i \in 1..(n * Len(s)) |-> s[((i - 1) % Len(s)) + 1]]

\* the mode and the active object after the first k of the steps
ModeAt(steps, k, m) ==
    LET set == {j \in 1..k : steps[j].kind = "mode_set"}
    IN IF set = {} THEN m ELSE steps[MaxOf(set)].arg

ActiveAt(steps, k, a) ==
    LET set == {j \in 1..k : steps[j].kind = "activate"}
    IN IF set = {} THEN a ELSE steps[MaxOf(set)].arg

\* the operators and writes among the steps, each with the mode and the active
\* object it finds, and the pieces that the stage it belongs to is given
Ambient(steps, m, a, pieces) ==
    LET found == [k \in Indices(steps) |->
                     [op |-> steps[k].arg, kind |-> steps[k].kind,
                      mode |-> ModeAt(steps, k, m), active |-> ActiveAt(steps, k, a),
                      pieces |-> pieces]]
    IN SelectSeq(found, LAMBDA e : e.kind \notin {"mode_set", "activate"})

deselect_all_vertices_steps == <<mode_set("EDIT"), mesh_op("select_all")>>

select_object_steps(o) == <<mode_set("OBJECT"), scene_op("select_all"), activate(o)>>

remove_duplicate_vertices_steps ==
    <<mode_set("EDIT"), mesh_op("select_all"), mesh_op("remove_doubles"),
      mode_set("OBJECT")>>

move_object_origin_to_center_of_mass_steps ==
    <<mode_set("OBJECT"), object_op("origin_set")>>

bisect_steps ==
    deselect_all_vertices_steps
        \o <<mode_set("EDIT"), mesh_op("select_all"), mesh_op("bisect")>>

bend_object_steps ==
    <<mode_set("OBJECT"), object_op("modifier_add"), object_op("modifier_apply")>>

\* scale_svg_to_lifesize, extrude_curve, remove_duplicate_vertices
create_mesh_from_svg_steps ==
    <<mode_set("OBJECT"), object_op("origin_set"), object_op("resize"),
      object_op("convert")>>
        \o remove_duplicate_vertices_steps

\* rotate_object, move_object_origin_to_center_of_mass, move_to_origin
reorient_for_easier_manipulation_steps ==
    deselect_all_vertices_steps
        \o <<mode_set("EDIT"), mesh_op("select_all"), mesh_op("rotate")>>
        \o move_object_origin_to_center_of_mass_steps
        \o <<mode_set("OBJECT"), object_op("location")>>

\* each duplicate_move leaves the new copy active
duplicate_object_steps ==
    <<mode_set("OBJECT"), object_op("duplicate_move"), activate("left"),
      object_op("duplicate_move"), activate("bridge")>>

cut_bridge_steps == select_object_steps("bridge") \o bisect_steps \o bisect_steps

bisect_bridge_for_resolution_steps == Repeat(bisect_steps, NumberOfSegments + 1)

\* a selection of the middle of the bridge made without leaving EDIT mode
select_mid_bridge_points_in_edit_mode == <<write("data.vertices")>>

select_mid_bridge_points_steps == <<mode_set("OBJECT"), write("data.vertices")>>

protrude_bridge_steps == <<mode_set("EDIT"), mesh_op("translate")>>

extrude_bridge_steps ==
    select_object_steps("bridge") \o deselect_all_vertices_steps
        \o select_mid_bridge_points_steps \o protrude_bridge_steps

separate_lens_area_steps(lens) == select_object_steps(lens) \o bisect_steps

select_nosepad_peak_vertices_steps ==
    deselect_all_vertices_steps \o <<mode_set("OBJECT"), write("data.vertices")>>

shrink_nosepad_steps == <<mode_set("EDIT"), mesh_op("shrink_fatten")>>

extrude_nosepad_peak_steps == <<mode_set("EDIT"), mesh_op("translate")>>

reset_normal_vertices_steps ==
    deselect_all_vertices_steps \o <<mode_set("OBJECT"), write("data.vertices")>>

\* select_object, move_object_origin_to_center_of_mass,
\* increase_resolution_for_bending, bend_object
bend_lens_area_steps(lens) ==
    select_object_steps(lens) \o move_object_origin_to_center_of_mass_steps
        \o select_object_steps(lens) \o <<mode_set("EDIT")>>
        \o Repeat(bisect_steps, NumberOfLoops) \o bend_object_steps

align_lens_area_and_bridge_steps == select_object_steps("bridge") \o <<object_op("align")>>

align_left_lens_area_and_bridge_steps ==
    align_lens_area_and_bridge_steps
        \o select_object_steps("bridge") \o <<object_op("translate")>>

align_right_lens_area_and_bridge_steps ==
    align_lens_area_and_bridge_steps
        \o select_object_steps("right") \o <<object_op("translate")>>

\* merge_objects, and the select_object(frame_object) of combine_for_frame
merge_objects_steps ==
    select_object_steps("bridge") \o <<object_op("join")>> \o select_object_steps("bridge")

select_non_manifold_vertices_steps ==
    <<mode_set("EDIT"), mesh_op("select_all"), mesh_op("select_non_manifold")>>

deselect_non_manifold_vertices_steps == <<mode_set("EDIT"), write("bmesh.verts")>>

bridge_gap_steps == <<mode_set("EDIT"), mesh_op("bridge_edge_loops")>>

\* the steps of a stage, on the ambient state as it stands
Runs(steps, pieces) ==
    /\ ran' = Ambient(steps, mode, active, pieces)
    /\ mode' = ModeAt(steps, Len(steps), mode)
    /\ active' = ActiveAt(steps, Len(steps), active)

Mesh(o) == [verts |-> verts[o], edges |-> edges[o]]

\* bisect() on the active object; the plane is given in world coordinates
BisectActive(mesh, at, x_coord, clear_inner, clear_outer, z_tilt, z_translation) ==
    Bisect(mesh, x_coord - at.x, clear_inner, clear_outer, z_tilt,
           Rat(z_translation.n - z_translation.d * at.z, z_translation.d))

\* the arguments of one call of bisect
Call(x_coord, clear_inner, clear_outer, z_tilt, z_translation) ==
    [x_coord |-> x_coord, clear_inner |-> clear_inner, clear_outer |-> clear_outer,
     z_tilt |-> z_tilt, z_translation |-> z_translation]

\* bisect() on the active object, its arguments given as a record
BisectCalled(mesh, at, call) ==
    BisectActive(mesh, at, call.x_coord, call.clear_inner, call.clear_outer,
                 call.z_tilt, call.z_translation)

NoTilt == Rat(0, 1)

NoTranslation == Rat(0, 1)

Neg(r) == Rat(-r.n, r.d)

\* ------------------------------------------------- create_mesh_from_svg
\* scale, extrude the curve into a mesh, weld the seams
CreateMeshFromSvg ==
    /\ pc = "create_mesh_from_svg"
    /\ Runs(create_mesh_from_svg_steps, {active})
    /\ verts' = [verts EXCEPT ![active] = SolidVerts(shape, active)]
    /\ edges' = [edges EXCEPT ![active] = SolidEdges(shape)]
    /\ log' = log \o <<"convert", "remove_doubles">>
    /\ pc' = "reorient_for_easier_manipulation"
    /\ UNCHANGED <<cur, params, exists, loc, sel, picked,
                   bottom_of_bridge, nosepad, gap, stitched,
                   history>>

\* move_object_origin_to_center_of_mass on vertices V of an object at l:
\* the vertices keep their world positions
OriginToCenterOfMass(V, l) ==
    LET c == CenterOfMass(V)
    IN [verts |-> Shift(V, Minus(c)), loc |-> Plus(l, c)]

\* rotate_object, move_object_origin_to_center_of_mass, move_to_origin
ReorientForEasierManipulation ==
    /\ pc = "reorient_for_easier_manipulation"
    /\ Runs(reorient_for_easier_manipulation_steps, {active})
    /\ LET moved == OriginToCenterOfMass(RotateVerts(verts[active]), loc[active])
       IN /\ verts' = [verts EXCEPT ![active] = moved.verts]
          /\ loc' = [loc EXCEPT ![active] = Zero3]
    /\ sel' = [sel EXCEPT ![active] = Indices(verts[active])]
    /\ log' = log \o <<"rotate", "origin_set", "move_to_origin">>
    /\ pc' = "duplicate_object"
    /\ UNCHANGED <<cur, params, exists, edges, picked,
                   bottom_of_bridge, nosepad, gap, stitched,
                   history>>

\* duplicate_object(2): two unlinked copies; the three objects of the scene
\* are the bridge, the left lens and the right lens
DuplicateObject ==
    /\ pc = "duplicate_object"
    /\ Runs(duplicate_object_steps, Objects)
    /\ exists' = Objects
    /\ verts' = [o \in Objects |->
                    [i \in Indices(verts[active]) |-> [verts[active][i] EXCEPT !.of = o]]]
    /\ edges' = [o \in Objects |-> edges[active]]
    /\ loc' = [o \in Objects |-> loc[active]]
    /\ sel' = [o \in Objects |-> sel[active]]
    /\ picked' = {"bridge"}
    /\ log' = log \o <<"duplicate", "duplicate">>
    /\ solid' = CoordsOf(verts[active])
    /\ pc' = "cut_bridge"
    /\ UNCHANGED <<cur, params, bottom_of_bridge, nosepad, gap, stitched,
                   after_cut, unaligned, loops, cuts>>

\* ------------------------------------------------------------ form_bridge
\* cut_bridge: keep the band between the two slanted boundary planes
cut_bridge(mesh, at, width, slant) ==
    LET left_bridge_boundary_from_bridge == -(width \div 2)
        right_bridge_boundary_from_bridge == width \div 2
        first == BisectActive(mesh, at, left_bridge_boundary_from_bridge,
                              TRUE, FALSE, slant, NoTranslation)
    IN BisectActive(first, at, right_bridge_boundary_from_bridge,
                    FALSE, TRUE, Neg(slant), NoTranslation)

CutBridge ==
    /\ pc = "cut_bridge"
    /\ Runs(cut_bridge_steps, {"bridge"})
    /\ LET cut == cut_bridge(Mesh("bridge"), loc["bridge"], bridge_width, bridge_slant)
       IN /\ verts' = [verts EXCEPT !["bridge"] = cut.verts]
          /\ edges' = [edges EXCEPT !["bridge"] = cut.edges]
          /\ sel' = [sel EXCEPT !["bridge"] = cut.cut]
    /\ picked' = {"bridge"}
    /\ log' = log \o <<"bisect", "bisect">>
    /\ after_cut' = [after_cut EXCEPT !["bridge"] = Value(CoordsOf(verts'["bridge"]))]
    /\ pc' = "bisect_bridge_for_resolution"
    /\ UNCHANGED <<cur, params, exists, loc, bottom_of_bridge, nosepad, gap, stitched,
                   solid, unaligned, loops, cuts>>

\* a spread that keeps both ends of the range, -max_val and max_val
get_spread_for_bridge_with_ends(max_val) ==
    LET half == (NumberOfSegments + 2) \div 2
    IN [i \in 1..(2 * half + 1) |-> Rat((i - half - 1) * max_val.n, half * max_val.d)]

\* get_spread_for_bridge: the slants x / half * max_val for x in -half+1..half-1
get_spread_for_bridge(max_val) ==
    LET half == (NumberOfSegments + 2) \div 2
    IN [i \in 1..(2 * half - 1) |-> Rat((i - half) * max_val.n, half * max_val.d)]

\* a convergence point that is put at z = 0 when the slant is zero
compute_convergence_point_or_zero(width, max_slant) ==
    IF max_slant.n = 0 THEN Rat(0, 1)
    ELSE Rat(-Sgn(max_slant.n) * width * max_slant.d, 2 * Abs(max_slant.n))

\* compute_convergence_point: z where the left boundary plane meets x = 0,
\* (bridge_width / 2.0) / (-1.0 * max_slant); the quotient has denominator 0,
\* and the division raises ZeroDivisionError, when max_slant is 0
compute_convergence_point(width, max_slant) ==
    Rat(-Sgn(max_slant.n) * width * max_slant.d, 2 * Abs(max_slant.n))

\* whether a quotient was computed without dividing by zero
Defined(r) == r.d # 0

\* the calls of bisect_bridge_for_resolution: bisect(0.0, z_tilt=slant,
\* z_translation=z_translation) for each slant of the spread
resolution_cuts(width, max_slant) ==
    LET z_translation == compute_convergence_point(width, max_slant)
        slant_spread == get_spread_for_bridge(max_slant)
    IN [i \in Indices(slant_spread) |->
           Call(0, FALSE, FALSE, slant_spread[i], z_translation)]

\* the calls from the lo-th to the hi-th, in turn
RECURSIVE BisectEach(_, _, _, _, _)
BisectEach(mesh, at, calls, lo, hi) ==
    IF lo > hi \/ mesh.verts = <<>> THEN mesh
    ELSE IF lo = hi
    THEN BisectCalled(mesh, at, calls[lo])
    ELSE LET mid == (lo + hi) \div 2
         IN BisectEach(BisectEach(mesh, at, calls, lo, mid), at, calls, mid + 1, hi)

bisect_bridge_for_resolution(mesh, at, width, max_slant) ==
    LET calls == resolution_cuts(width, max_slant)
    IN BisectEach(mesh, at, calls, 1, Len(calls))

\* compute_convergence_point comes first: when it raises, nothing is cut
BisectBridgeForResolution ==
    /\ pc = "bisect_bridge_for_resolution"
    /\ IF ~Defined(compute_convergence_point(bridge_width, bridge_slant))
       THEN /\ pc' = "ZeroDivisionError"
            /\ ran' = <<>>
            /\ UNCHANGED <<mode, active, verts, edges, sel, log, cuts>>
       ELSE /\ Runs(bisect_bridge_for_resolution_steps, {"bridge"})
            /\ LET cut == bisect_bridge_for_resolution(Mesh(active), loc[active],
                                                       bridge_width, bridge_slant)
               IN /\ verts' = [verts EXCEPT ![active] = cut.verts]
                  /\ edges' = [edges EXCEPT ![active] = cut.edges]
                  /\ sel' = [sel EXCEPT ![active] = cut.cut]
            /\ log' = log \o [i \in 1..(NumberOfSegments + 1) |-> "bisect"]
            /\ cuts' = cuts \o resolution_cuts(bridge_width, bridge_slant)
            /\ pc' = "extrude_bridge"
    /\ UNCHANGED <<cur, params, exists, loc, picked,
                   bottom_of_bridge, nosepad, gap, stitched,
                   solid, after_cut, unaligned, loops>>

\* select_mid_bridge_points: |x| <= 0.1 * (bridge_width / 2) / 1000
select_mid_bridge_points(V, width) ==
    {i \in Indices(V) : in_range(width, -width, 20000 * V[i].x)}

ProtrudeSize == 500

\* extrude_bridge: select the middle of the bridge and protrude it
ExtrudeBridge ==
    /\ pc = "extrude_bridge"
    /\ Runs(extrude_bridge_steps, {"bridge"})
    /\ LET mid == select_mid_bridge_points(verts["bridge"], bridge_width)
       IN /\ sel' = [sel EXCEPT !["bridge"] = mid]
          /\ verts' = [verts EXCEPT !["bridge"] =
                          ProportionalTranslate(@, mid,
                              [x |-> 0, y |-> BridgeProtrusion, z |-> 0], ProtrudeSize)]
    /\ picked' = {"bridge"}
    /\ log' = log \o <<"translate">>
    /\ pc' = "find_min_z_coord_of_object"
    /\ UNCHANGED <<cur, params, exists, edges, loc, bottom_of_bridge, nosepad, gap, stitched,
                   history>>

\* the least x coordinate, where the least z is asked for
find_min_x_coord_of_object(V) == MinOf({V[i].x : i \in Indices(V)})

find_min_z_coord_of_object(V) == MinOf({V[i].z : i \in Indices(V)})

\* bottom_of_bridge = find_min_z_coord_of_object(bridge_object); min() of an
\* empty list raises
FindMinZCoordOfObject ==
    /\ pc = "find_min_z_coord_of_object"
    /\ Runs(select_object_steps("bridge"), {"bridge"})
    /\ picked' = {"bridge"}
    /\ IF verts["bridge"] = <<>>
       THEN /\ pc' = "aborted"
            /\ UNCHANGED <<cur, bottom_of_bridge>>
       ELSE /\ bottom_of_bridge' = Value(find_min_z_coord_of_object(verts["bridge"]))
            /\ cur' = "left"
            /\ pc' = "separate_lens_area"
    /\ UNCHANGED <<params, exists, verts, edges, loc, sel, nosepad, gap, stitched, log,
                   history>>

\* ------------------------------------------------------- form_*_lens_area
\* a left lens cut straight down, along x = -width / 2 at every height
separate_left_lens_area_upright(mesh, at, width, slant) ==
    BisectActive(mesh, at, -(width \div 2), FALSE, TRUE, NoTilt, NoTranslation)

\* a right lens cut leaning the same way as the left one
separate_right_lens_area_parallel(mesh, at, width, slant) ==
    BisectActive(mesh, at, width \div 2, TRUE, FALSE, slant, NoTranslation)

\* separate_left_lens_area: clear what lies outside the left boundary plane
separate_left_lens_area(mesh, at, width, slant) ==
    LET left_bridge_boundary_from_bridge == -(width \div 2)
    IN BisectActive(mesh, at, left_bridge_boundary_from_bridge,
                    FALSE, TRUE, slant, NoTranslation)

\* separate_right_lens_area: clear what lies inside the right boundary plane
separate_right_lens_area(mesh, at, width, slant) ==
    LET right_bridge_boundary_from_bridge == width \div 2
    IN BisectActive(mesh, at, right_bridge_boundary_from_bridge,
                    TRUE, FALSE, Neg(slant), NoTranslation)

SeparateLensArea ==
    /\ pc = "separate_lens_area"
    /\ Runs(separate_lens_area_steps(cur), {cur})
    /\ LET cut == IF cur = "left"
                  THEN separate_left_lens_area(Mesh(cur), loc[cur], bridge_width, bridge_slant)
                  ELSE separate_right_lens_area(Mesh(cur), loc[cur], bridge_width, bridge_slant)
       IN /\ verts' = [verts EXCEPT ![cur] = cut.verts]
          /\ edges' = [edges EXCEPT ![cur] = cut.edges]
          /\ sel' = [sel EXCEPT ![cur] = cut.cut]
    /\ picked' = {cur}
    /\ log' = log \o <<"bisect">>
    /\ after_cut' = [after_cut EXCEPT ![cur] = Value(CoordsOf(verts'[cur]))]
    /\ pc' = "find_nosepad_x_coord_range"
    /\ UNCHANGED <<cur, params, exists, loc, bottom_of_bridge, nosepad, gap, stitched,
                   solid, unaligned, loops, cuts>>

find_max_and_min_x_coord_of_object(V) ==
    [max_x |-> MaxOf({V[i].x : i \in Indices(V)}),
     min_x |-> MinOf({V[i].x : i \in Indices(V)})]

\* a range taken from the same end of either lens piece
find_nosepad_x_coord_range_one_sided(V, left_nosepad) ==
    LET ends == find_max_and_min_x_coord_of_object(V)
        nosepad_range_width == MulDiv(ends.max_x - ends.min_x, 18, 100)
    IN [max_x |-> ends.min_x + nosepad_range_width, min_x |-> ends.min_x]

\* find_nosepad_x_coord_range: the inner 18% of the lens piece's width
find_nosepad_x_coord_range(V, left_nosepad) ==
    LET ends == find_max_and_min_x_coord_of_object(V)
        width == ends.max_x - ends.min_x
        nosepad_range_width == MulDiv(width, 18, 100)
    IN IF left_nosepad
       THEN [max_x |-> ends.max_x, min_x |-> ends.max_x - nosepad_range_width]
       ELSE [max_x |-> ends.min_x + nosepad_range_width, min_x |-> ends.min_x]

\* max_x, min_x = find_*_nosepad_x_coord_range(lens_object); max() of an
\* empty list raises
FindNosepadXCoordRange ==
    /\ pc = "find_nosepad_x_coord_range"
    /\ Runs(select_object_steps(cur), {cur})
    /\ picked' = {cur}
    /\ IF verts[cur] = <<>>
       THEN /\ pc' = "aborted"
            /\ UNCHANGED <<xrange, stage>>
       ELSE /\ xrange' = [xrange EXCEPT ![cur] =
                             Value(find_nosepad_x_coord_range(verts[cur], cur = "left"))]
            /\ stage' = [stage EXCEPT ![cur] = "RegionComputed"]
            /\ pc' = "cache_non_nosepad_vertices"
    /\ UNCHANGED <<cur, params, exists, verts, edges, loc, sel, bottom_of_bridge,
                   cache, peak, deformed, before, gap, stitched, log,
                   history>>


\* a cache keyed by the place of a vertex among those with y <= 0, not by
\* vertex.index
cache_non_nosepad_vertices_by_rank(V) ==
    LET front == SelectSeq([j \in Indices(V) |-> j], LAMBDA j : V[j].y <= 0)
    IN [r \in Indices(front) |-> Coord(V[front[r]])]

\* cache_non_nosepad_vertices: index -> [x, y, z] for every vertex with y <= 0
cache_non_nosepad_vertices(V) ==
    [i \in {j \in Indices(V) : V[j].y <= 0} |-> Coord(V[i])]

CacheNonNosepadVertices ==
    /\ pc = "cache_non_nosepad_vertices"
    /\ Runs(select_object_steps(cur), {cur})
    /\ picked' = {cur}
    /\ cache' = [cache EXCEPT ![cur] = cache_non_nosepad_vertices(verts[cur])]
    /\ pc' = "select_nosepad_peak_vertices"
    /\ UNCHANGED <<cur, params, exists, verts, edges, loc, sel, bottom_of_bridge,
                   xrange, peak, stage, deformed, before, gap, stitched, log,
                   history>>

find_bottom_of_nosepad_region(V, max_x, min_x) ==
    MinOf({V[i].z : i \in {j \in Indices(V) : in_range(max_x, min_x, V[j].x)}})

\* a peak band half way down the nosepad and three times as wide
find_nosepad_peak_height(bottom, bottom_of_nosepad) ==
    LET distance == bottom - bottom_of_nosepad
        peak_z == bottom - MulDiv(distance, 5, 10)
        delta == MulDiv(distance, 15, 100)
    IN [max_z |-> peak_z + delta, min_z |-> peak_z - delta]

\* find_nosepad_peak_vertices_z_range: peak +- delta
find_nosepad_peak_vertices_z_range(bottom, bottom_of_nosepad) ==
    LET length == bottom - bottom_of_nosepad
        peak_z == bottom - MulDiv(length, 4, 10)
        delta == MulDiv(length, 5, 100)
    IN [max_z |-> peak_z + delta, min_z |-> peak_z - delta]

\* select_nosepad_peak_vertices: the vertices of the nosepad x-range whose z
\* lies in the peak band
select_nosepad_peak_vertices(V, band, max_x, min_x) ==
    {i \in Indices(V) : in_range(band.max_z, band.min_z, V[i].z)
                          /\ in_range(max_x, min_x, V[i].x)}

SelectNosepadPeakVertices ==
    /\ pc = "select_nosepad_peak_vertices"
    /\ Runs(select_nosepad_peak_vertices_steps, {cur})
    /\ LET r == xrange[cur].val
           bottom_of_nosepad == find_bottom_of_nosepad_region(verts[cur], r.max_x, r.min_x)
           band == find_nosepad_peak_vertices_z_range(bottom_of_bridge.val, bottom_of_nosepad)
       IN /\ peak' = [peak EXCEPT ![cur] =
                         Value([bottom_of_nosepad |-> bottom_of_nosepad,
                                max_z |-> band.max_z, min_z |-> band.min_z])]
          /\ sel' = [sel EXCEPT ![cur] =
                        select_nosepad_peak_vertices(verts[cur], band, r.max_x, r.min_x)]
    /\ stage' = [stage EXCEPT ![cur] = "PeakSelected"]
    /\ pc' = "shrink_nosepad"
    /\ UNCHANGED <<cur, params, exists, verts, edges, loc, picked,
                   bottom_of_bridge, xrange, cache, deformed, before, gap, stitched, log,
                   history>>

ShrinkSize == 1000

\* shrink_nosepad: shrink_fatten on whatever is selected
ShrinkNosepad ==
    /\ pc = "shrink_nosepad"
    /\ Runs(shrink_nosepad_steps, {cur})
    /\ verts' = [verts EXCEPT ![active] =
                    ProportionalShrinkFatten(@, sel[active], nosepad_shrink_amount, ShrinkSize)]
    /\ deformed' = [deformed EXCEPT ![cur] =
                       Append(@, [op |-> "shrink_fatten", on |-> sel[active]])]
    /\ stage' = [stage EXCEPT ![cur] = "Shrunk"]
    /\ log' = log \o <<"shrink_fatten">>
    /\ pc' = "extrude_nosepad_peak"
    /\ UNCHANGED <<cur, params, exists, edges, loc, sel, picked,
                   bottom_of_bridge, xrange, cache, peak, before, gap, stitched,
                   history>>

ExtrudeSize == 800

ExtrudeY == 400

ExtrudeZ == 200

\* extrude_nosepad_peak: translate whatever is selected forward and up
ExtrudeNosepadPeak ==
    /\ pc = "extrude_nosepad_peak"
    /\ Runs(extrude_nosepad_peak_steps, {cur})
    /\ verts' = [verts EXCEPT ![active] =
                    ProportionalTranslate(@, sel[active],
                        [x |-> 0, y |-> ExtrudeY, z |-> ExtrudeZ], ExtrudeSize)]
    /\ deformed' = [deformed EXCEPT ![cur] =
                       Append(@, [op |-> "translate", on |-> sel[active]])]
    /\ stage' = [stage EXCEPT ![cur] = "Extruded"]
    /\ log' = log \o <<"translate">>
    /\ pc' = "reset_normal_vertices"
    /\ UNCHANGED <<cur, params, exists, edges, loc, sel, picked,
                   bottom_of_bridge, xrange, cache, peak, before, gap, stitched,
                   history>>

\* a restoration that puts back x and z of a cached vertex, and leaves its y
reset_normal_vertices_in_plane(V, non_nosepad_vertices_map) ==
    [i \in Indices(V) |->
        IF i \in DOMAIN non_nosepad_vertices_map
        THEN [V[i] EXCEPT !.x = non_nosepad_vertices_map[i].x,
                          !.z = non_nosepad_vertices_map[i].z]
        ELSE V[i]]

\* reset_normal_vertices: vertices[index].co = coord for every cached index
reset_normal_vertices(V, non_nosepad_vertices_map) ==
    [i \in Indices(V) |->
        IF i \in DOMAIN non_nosepad_vertices_map
        THEN [V[i] EXCEPT !.x = non_nosepad_vertices_map[i].x,
                          !.y = non_nosepad_vertices_map[i].y,
                          !.z = non_nosepad_vertices_map[i].z]
        ELSE V[i]]

ResetNormalVertices ==
    /\ pc = "reset_normal_vertices"
    /\ Runs(reset_normal_vertices_steps, {cur})
    /\ sel' = [sel EXCEPT ![active] = {}]
    /\ verts' = [verts EXCEPT ![cur] = reset_normal_vertices(@, cache[cur])]
    /\ before' = [before EXCEPT ![cur] = verts[cur]]
    /\ stage' = [stage EXCEPT ![cur] = "Restored"]
    /\ pc' = "bend_lens_area"
    /\ UNCHANGED <<cur, params, exists, edges, loc, picked,
                   bottom_of_bridge, xrange, cache, peak, deformed, gap, stitched, log,
                   history>>

\* bm.dimensions[0]: the extent of the object along x
DimensionX(V) ==
    IF V = <<>> THEN 0
    ELSE MaxOf({V[i].x : i \in Indices(V)}) - MinOf({V[i].x : i \in Indices(V)})

\* the SimpleDeform modifier in BEND mode about z: x is wound onto a circle of
\* radius extent / angle around the object's origin (angles in milliradians,
\* sine and cosine by their series to the third order)
bend_object(V, bend_degree) ==
    LET extent == DimensionX(V)
        radius == (1000 * extent) \div bend_degree
    IN IF extent = 0 THEN V
       ELSE [i \in Indices(V) |->
                LET theta == MulDiv(V[i].x, bend_degree, extent)
                    sint == theta - MulDiv(theta * theta, theta, 6000000)
                    cost == 1000 - (theta * theta) \div 2000
                IN [V[i] EXCEPT !.x = MulDiv(radius - V[i].y, sint, 1000),
                                !.y = radius - MulDiv(radius - V[i].y, cost, 1000)]]

\* for x in spread: bisect(x * spacing + center), the x from lo to hi in turn
RECURSIVE BisectLoops(_, _, _, _, _, _)
BisectLoops(mesh, at, center, width, lo, hi) ==
    IF lo > hi \/ mesh.verts = <<>> THEN mesh
    ELSE IF lo = hi
    THEN BisectActive(mesh, at, MulDiv(lo * width, 1, NumberOfLoops) + center,
                      FALSE, FALSE, NoTilt, NoTranslation)
    ELSE LET mid == (lo + hi) \div 2
         IN BisectLoops(BisectLoops(mesh, at, center, width, lo, mid),
                        at, center, width, mid + 1, hi)

\* bisect_to_increase_edge_loops: cuts at x * spacing + center for x in the
\* spread -6..6, spacing = width / number_of_loops
bisect_to_increase_edge_loops(mesh, at, center, width) ==
    BisectLoops(mesh, at, center, width, -(NumberOfLoops \div 2), NumberOfLoops \div 2)

\* bend_lens_area: origin to the centre of mass, more edge loops over three
\* quarters of the width, bend
bend_lens_area(mesh, at, bend_degree) ==
    LET moved == OriginToCenterOfMass(mesh.verts, at)
        cut == bisect_to_increase_edge_loops(
                   [verts |-> moved.verts, edges |-> mesh.edges], moved.loc,
                   moved.loc.x, MulDiv(DimensionX(moved.verts), 75, 100))
    IN [verts |-> bend_object(cut.verts, bend_degree), edges |-> cut.edges,
        cut |-> cut.cut, loc |-> moved.loc]

BendLensArea ==
    /\ pc = "bend_lens_area"
    /\ Runs(bend_lens_area_steps(cur), {cur})
    /\ LET bent == bend_lens_area(Mesh(cur), loc[cur], LensBendMilli)
       IN /\ verts' = [verts EXCEPT ![cur] = bent.verts]
          /\ edges' = [edges EXCEPT ![cur] = bent.edges]
          /\ loc' = [loc EXCEPT ![cur] = bent.loc]
          /\ sel' = [sel EXCEPT ![cur] = bent.cut]
    /\ picked' = {cur}
    /\ log' = log \o <<"origin_set">> \o [i \in 1..NumberOfLoops |-> "bisect"]
                  \o <<"modifier_apply">>
    /\ IF cur = "left"
       THEN cur' = "right" /\ pc' = "separate_lens_area"
       ELSE cur' = "none" /\ pc' = "align_left_lens_area_and_bridge"
    /\ UNCHANGED <<params, exists, bottom_of_bridge, nosepad, gap, stitched,
                   history>>

\* ------------------------------------------------------------------ align
\* bpy.ops.object.align(align_mode='OPT_2', relative_to='OPT_1',
\* align_axis={'Y'}): the centre of the object's bounds goes to y = 0
AlignY(V, l) ==
    IF V = <<>> THEN l
    ELSE LET ys == {V[i].y : i \in Indices(V)}
         IN [l EXCEPT !.y = -((MaxOf(ys) + MinOf(ys)) \div 2)]

\* align_left_lens_area_and_bridge: align the two along y, then move the
\* bridge, whose vertices are V and location l, by gap along x
align_left_lens_area_and_bridge(V, l, g) == [AlignY(V, l) EXCEPT !.x = @ + g]

\* gap = 0.04 * bridge_object.dimensions[0]; align_left_lens_area_and_bridge
AlignLeftLensAreaAndBridge ==
    /\ pc = "align_left_lens_area_and_bridge"
    /\ Runs(align_left_lens_area_and_bridge_steps, {"left", "bridge"})
    /\ LET g == MulDiv(DimensionX(verts["bridge"]), 4, 100)
       IN /\ gap' = Value(g)
          /\ loc' = [loc EXCEPT
                        !["left"] = AlignY(verts["left"], @),
                        !["bridge"] = align_left_lens_area_and_bridge(verts["bridge"], @, g)]
    /\ picked' = {"bridge"}
    /\ log' = log \o <<"align", "translate">>
    /\ unaligned' = loc
    /\ pc' = "align_right_lens_area_and_bridge"
    /\ UNCHANGED <<cur, params, exists, verts, edges, sel, bottom_of_bridge,
                   nosepad, stitched,
                   solid, after_cut, loops, cuts>>

\* a right lens moved by gap only, as the bridge was
align_right_lens_area_and_bridge_once(V, l, g) == [AlignY(V, l) EXCEPT !.x = @ + g]

\* align_right_lens_area_and_bridge: align along y, then move the right lens,
\* whose vertices are V and location l, by gap * 2 along x
align_right_lens_area_and_bridge(V, l, g) == [AlignY(V, l) EXCEPT !.x = @ + g * 2]

AlignRightLensAreaAndBridge ==
    /\ pc = "align_right_lens_area_and_bridge"
    /\ Runs(align_right_lens_area_and_bridge_steps, {"right", "bridge"})
    /\ loc' = [loc EXCEPT
                  !["right"] = align_right_lens_area_and_bridge(verts["right"], @, gap.val),
                  !["bridge"] = AlignY(verts["bridge"], @)]
    /\ picked' = {"right"}
    /\ log' = log \o <<"align", "translate">>
    /\ cur' = "left"
    /\ pc' = "merge_objects"
    /\ UNCHANGED <<params, exists, verts, edges, sel, bottom_of_bridge,
                   nosepad, gap, stitched,
                   history>>

\* ------------------------------------------------------ combine_for_frame
\* a join that keeps object_b as it is and loses the mesh of object_a
merge_objects_losing(mesh_a, at_a, mesh_b, at_b) == mesh_b

\* merge_objects(object_a, object_b): bpy.ops.object.join() moves the mesh of
\* object_a into object_b, in object_b's coordinates
merge_objects(mesh_a, at_a, mesh_b, at_b) ==
    LET n == Len(mesh_b.verts)
        d == Plus(at_a, Minus(at_b))
    IN [verts |-> mesh_b.verts \o Shift(mesh_a.verts, d),
        edges |-> mesh_b.edges \o
                  [k \in Indices(mesh_a.edges) |->
                      <<mesh_a.edges[k][1] + n, mesh_a.edges[k][2] + n>>]]

\* frame_object = merge_objects(lens_object, bridge_object); the bridge object
\* is both the bare bridge and, later, the partial frame
MergeObjects ==
    /\ pc = "merge_objects"
    /\ Runs(merge_objects_steps, {cur, "bridge"})
    /\ LET joined == merge_objects(Mesh(cur), loc[cur], Mesh("bridge"), loc["bridge"])
       IN /\ verts' = [verts EXCEPT !["bridge"] = joined.verts, ![cur] = <<>>]
          /\ edges' = [edges EXCEPT !["bridge"] = joined.edges, ![cur] = <<>>]
          /\ sel' = [sel EXCEPT
                        !["bridge"] = @ \cup {i + Len(verts["bridge"]) : i \in sel[cur]},
                        ![cur] = {}]
    /\ exists' = exists \ {cur}
    /\ picked' = {"bridge"}
    /\ log' = log \o <<"join">>
    /\ pc' = "select_non_manifold_vertices"
    /\ UNCHANGED <<cur, params, loc, bottom_of_bridge, nosepad, gap, stitched,
                   history>>

\* select_non_manifold_vertices: the vertices of the open boundary loops
select_non_manifold_vertices(V) == {i \in Indices(V) : V[i].nm}

SelectNonManifoldVertices ==
    /\ pc = "select_non_manifold_vertices"
    /\ Runs(select_non_manifold_vertices_steps, {"bridge"})
    /\ sel' = [sel EXCEPT ![active] = select_non_manifold_vertices(verts[active])]
    /\ log' = log \o <<"select_non_manifold">>
    /\ pc' = "deselect_non_manifold_vertices"
    /\ UNCHANGED <<cur, params, exists, verts, edges, loc, picked,
                   bottom_of_bridge, nosepad, gap, stitched,
                   history>>

on_right_side(vertex) == vertex.x >= 0

on_left_side(vertex) == vertex.x <= 0

\* a deselection that keeps only the edge rule: a vertex on the side to
\* deselect stays selected unless an edge reaches it
deselect_non_manifold_vertices_by_edge(mesh, selected, deselect_left_side) ==
    LET side_check(v) == IF deselect_left_side THEN on_left_side(v) ELSE on_right_side(v)
        V == mesh.verts
        E == mesh.edges
        byEdge == UNION {{E[k][1], E[k][2]} :
                         k \in {j \in Indices(E) :
                                   side_check(V[E[j][1]]) \/ side_check(V[E[j][2]])}}
    IN selected \ byEdge

\* deselect_non_manifold_vertices: every edge with an end on the side to
\* deselect loses both its ends, then every vertex on that side is deselected
deselect_non_manifold_vertices(mesh, selected, deselect_left_side) ==
    LET side_check(v) == IF deselect_left_side THEN on_left_side(v) ELSE on_right_side(v)
        V == mesh.verts
        E == mesh.edges
        byEdge == UNION {{E[k][1], E[k][2]} :
                         k \in {j \in Indices(E) :
                                   side_check(V[E[j][1]]) \/ side_check(V[E[j][2]])}}
    IN {i \in selected \ byEdge : ~side_check(V[i])}

DeselectNonManifoldVertices ==
    /\ pc = "deselect_non_manifold_vertices"
    /\ Runs(deselect_non_manifold_vertices_steps, {"bridge"})
    /\ sel' = [sel EXCEPT ![active] =
                  deselect_non_manifold_vertices(Mesh(active), @, cur = "right")]
    /\ pc' = "bridge_gap"
    /\ UNCHANGED <<cur, params, exists, verts, edges, loc, picked,
                   bottom_of_bridge, nosepad, gap, stitched, log,
                   history>>

RECURSIVE Sorted(_)
\* the elements of a finite set of integers in increasing order
Sorted(S) ==
    IF S = {} THEN <<>>
    ELSE LET m == MinOf(S) IN <<m>> \o Sorted(S \ {m})

\* the two open loops picked for stitching: the selected boundary vertices
\* that came with the lens piece, and the others
LoopOf(V, selected, lens) == {i \in selected : V[i].of = lens}

LoopsMatch(V, selected, lens) ==
    LET a == LoopOf(V, selected, lens)
        b == selected \ a
    IN a # {} /\ b # {} /\ Cardinality(a) = Cardinality(b)

\* bpy.ops.mesh.bridge_edge_loops(use_merge=True) on matching loops: each
\* vertex of the lens loop is merged with its counterpart of the other loop,
\* half way between the two, which closes the seam
bridge_edge_loops(mesh, selected, lens) ==
    LET V == mesh.verts
        E == mesh.edges
        a == Sorted(LoopOf(V, selected, lens))
        b == Sorted(selected \ LoopOf(V, selected, lens))
        gone == Range(a)
        partner == [i \in gone |-> b[PositionOf(a)[i]]]
        other == [i \in Range(b) |-> a[PositionOf(b)[i]]]
        renum(i) == LET j == IF i \in gone THEN partner[i] ELSE i
                    IN j - Cardinality({g \in gone : g < j})
        kept == SelectSeq([i \in Indices(V) |-> i], LAMBDA i : i \notin gone)
        joined == SelectSeq(E, LAMBDA e : renum(e[1]) # renum(e[2]))
    IN [verts |-> [r \in Indices(kept) |->
                      LET i == kept[r]
                      IN IF i \in Range(b)
                         THEN [V[i] EXCEPT !.x = (V[i].x + V[other[i]].x) \div 2,
                                           !.y = (V[i].y + V[other[i]].y) \div 2,
                                           !.z = (V[i].z + V[other[i]].z) \div 2,
                                           !.nm = FALSE]
                         ELSE V[i]],
        edges |-> [k \in Indices(joined) |-> <<renum(joined[k][1]), renum(joined[k][2])>>]]

\* a frame that is finished as soon as one lens is combined with the bridge
after_combine_finish(lens) ==
    [cur |-> "none", pc |-> "move_object_origin_to_center_of_mass"]

\* form_lens_and_bridge: the left lens is combined with the bridge, then the
\* right lens with the partial frame, then the frame is finished
after_combine(lens) ==
    IF lens = "left"
    THEN [cur |-> "right", pc |-> "merge_objects"]
    ELSE [cur |-> "none", pc |-> "move_object_origin_to_center_of_mass"]

\* a stitch that does nothing, and says nothing, whatever loops it is given
bridge_gap_skipped(mesh, selected, lens) == [error |-> FALSE, mesh |-> mesh]

\* bridge_gap: bridge_edge_loops(use_merge=True) reports an error, which
\* bpy.ops raises as RuntimeError, unless there are two loops of equal length
bridge_gap(mesh, selected, lens) ==
    IF LoopsMatch(mesh.verts, selected, lens)
    THEN [error |-> FALSE, mesh |-> bridge_edge_loops(mesh, selected, lens)]
    ELSE [error |-> TRUE, mesh |-> mesh]

BridgeGap ==
    /\ pc = "bridge_gap"
    /\ Runs(bridge_gap_steps, {"bridge"})
    /\ LET out == bridge_gap(Mesh(active), sel[active], cur)
       IN IF out.error
          THEN /\ pc' = "aborted"
               /\ UNCHANGED <<cur, verts, edges, sel, stitched>>
          ELSE /\ verts' = [verts EXCEPT ![active] = out.mesh.verts]
               /\ edges' = [edges EXCEPT ![active] = out.mesh.edges]
               /\ sel' = [sel EXCEPT ![active] = {}]
               /\ stitched' = stitched \cup {cur}
               /\ cur' = after_combine(cur).cur
               /\ pc' = after_combine(cur).pc
    /\ loops' = [loops EXCEPT ![cur] =
                    LET lens == LoopOf(verts[active], sel[active], cur)
                    IN Value([lens |-> Cardinality(lens),
                              other |-> Cardinality(sel[active] \ lens)])]
    /\ log' = log \o <<"bridge_edge_loops">>
    /\ UNCHANGED <<params, exists, loc, picked, bottom_of_bridge, nosepad, gap,
                   solid, after_cut, unaligned, cuts>>

\* --------------------------------------------- the end of form_lens_and_bridge
\* select_object(complete_frame); move_object_origin_to_center_of_mass()
MoveObjectOriginToCenterOfMass ==
    /\ pc = "move_object_origin_to_center_of_mass"
    /\ Runs(select_object_steps("bridge") \o move_object_origin_to_center_of_mass_steps, {"bridge"})
    /\ LET moved == OriginToCenterOfMass(verts["bridge"], loc["bridge"])
       IN /\ verts' = [verts EXCEPT !["bridge"] = moved.verts]
          /\ loc' = [loc EXCEPT !["bridge"] = moved.loc]
    /\ picked' = {"bridge"}
    /\ log' = log \o <<"origin_set">>
    /\ pc' = "bend_object"
    /\ UNCHANGED <<cur, params, exists, edges, sel, bottom_of_bridge, nosepad,
                   gap, stitched,
                   history>>

\* bend_object(complete_frame, frame_bend)
BendObject ==
    /\ pc = "bend_object"
    /\ Runs(bend_object_steps, {"bridge"})
    /\ verts' = [verts EXCEPT !["bridge"] = bend_object(@, FrameBendMilli)]
    /\ log' = log \o <<"modifier_apply">>
    /\ pc' = "done"
    /\ UNCHANGED <<cur, params, exists, edges, loc, sel, picked,
                   bottom_of_bridge, nosepad, gap, stitched,
                   history>>

Next ==
    \/ BridgeGap
    \/ MoveObjectOriginToCenterOfMass
    \/ BendObject
    \/ BendLensArea
    \/ AlignLeftLensAreaAndBridge
    \/ AlignRightLensAreaAndBridge
    \/ MergeObjects
    \/ SelectNonManifoldVertices
    \/ DeselectNonManifoldVertices
    \/ SeparateLensArea
    \/ FindNosepadXCoordRange
    \/ CacheNonNosepadVertices
    \/ SelectNosepadPeakVertices
    \/ ShrinkNosepad
    \/ ExtrudeNosepadPeak
    \/ ResetNormalVertices
    \/ CutBridge
    \/ BisectBridgeForResolution
    \/ ExtrudeBridge
    \/ FindMinZCoordOfObject
    \/ CreateMeshFromSvg
    \/ ReorientForEasierManipulation
    \/ DuplicateObject

Spec == Init /\ [][Next]_vars

\* ------------------------------------------------- the peak band on its own
\* find_nosepad_peak_vertices_z_range is a function of two heights: here it is
\* given every pair of heights of a grid, whichever is the larger
MaxPeak == 6

PeakStep == Unit \div 5

PeakHeights == {k * PeakStep : k \in -MaxPeak..MaxPeak}

InitPeak ==
    /\ pc = "find_nosepad_peak_vertices_z_range"
    /\ cur = "left"
    /\ shape = "bar"
    /\ bridge_width = 2 * Unit
    /\ bridge_slant = Rat(1, 2)
    /\ nosepad_shrink_amount = 30
    /\ exists = {"left"}
    /\ verts = [o \in Objects |-> <<>>]
    /\ edges = [o \in Objects |-> <<>>]
    /\ loc = [o \in Objects |-> Zero3]
    /\ sel = [o \in Objects |-> {}]
    /\ active = "left"
    /\ picked = {"left"}
    /\ mode = "OBJECT"
    /\ bottom_of_bridge \in {Value(b) : b \in PeakHeights}
    /\ xrange = [s \in Lenses |-> Unset]
    /\ cache = [s \in Lenses |-> <<>>]
    /\ peak = [s \in Lenses |-> Unset]
    /\ stage = [s \in Lenses |-> "Idle"]
    /\ deformed = [s \in Lenses |-> <<>>]
    /\ before = [s \in Lenses |-> <<>>]
    /\ gap = Unset
    /\ stitched = {}
    /\ log = <<>>
    /\ solid = {}
    /\ after_cut = [o \in Objects |-> Unset]
    /\ unaligned = [o \in Objects |-> Zero3]
    /\ loops = [s \in Lenses |-> Unset]
    /\ cuts = <<>>
    /\ ran = <<>>

FindNosepadPeakVerticesZRange ==
    /\ pc = "find_nosepad_peak_vertices_z_range"
    /\ \E bottom_of_nosepad \in PeakHeights :
          LET band == find_nosepad_peak_vertices_z_range(bottom_of_bridge.val,
                                                         bottom_of_nosepad)
          IN peak' = [peak EXCEPT ![cur] =
                         Value([bottom_of_nosepad |-> bottom_of_nosepad,
                                max_z |-> band.max_z, min_z |-> band.min_z])]
    /\ pc' = "select_nosepad_peak_vertices"
    /\ UNCHANGED <<cur, params, scene, bottom_of_bridge, xrange, cache, stage, deformed,
                   before, gap, stitched, log, history, ran>>

NextPeak == FindNosepadPeakVerticesZRange

SpecPeak == InitPeak /\ [][NextPeak]_vars

\* -------------------------------------------------------- bisect on its own
\* bisect is a function of a mesh, a plane and two flags: here it is called
\* once on the base solid, with every plane of a grid and every pair of flags
MaxBisectX == 2

BisectXs == {k * Unit : k \in -MaxBisectX..MaxBisectX}

\* the base solid as reorient_for_easier_manipulation leaves it
BaseSolid(s, piece) ==
    OriginToCenterOfMass(RotateVerts(SolidVerts(s, piece)), Zero3).verts

InitBisect ==
    /\ pc = "bisect"
    /\ cur = "none"
    /\ shape \in Shapes
    /\ bridge_width = 2 * Unit
    /\ bridge_slant = Rat(1, 2)
    /\ nosepad_shrink_amount = 30
    /\ exists = {"right"}
    /\ verts = [o \in Objects |-> IF o = "right" THEN BaseSolid(shape, o) ELSE <<>>]
    /\ edges = [o \in Objects |-> IF o = "right" THEN SolidEdges(shape) ELSE <<>>]
    /\ loc = [o \in Objects |-> Zero3]
    /\ sel = [o \in Objects |-> {}]
    /\ active = "right"
    /\ picked = {"right"}
    /\ mode = "OBJECT"
    /\ bottom_of_bridge = Unset
    /\ xrange = [s \in Lenses |-> Unset]
    /\ cache = [s \in Lenses |-> <<>>]
    /\ peak = [s \in Lenses |-> Unset]
    /\ stage = [s \in Lenses |-> "Idle"]
    /\ deformed = [s \in Lenses |-> <<>>]
    /\ before = [s \in Lenses |-> <<>>]
    /\ gap = Unset
    /\ stitched = {}
    /\ log = <<>>
    /\ solid = CoordsOf(verts["right"])
    /\ after_cut = [o \in Objects |-> Unset]
    /\ unaligned = [o \in Objects |-> Zero3]
    /\ loops = [s \in Lenses |-> Unset]
    /\ cuts = <<>>
    /\ ran = <<>>

\* bisect(x_coord, clear_inner, clear_outer, z_tilt): the flags go to
\* bpy.ops.mesh.bisect as they are given
BisectOnce ==
    /\ pc = "bisect"
    /\ Runs(bisect_steps, {active})
    /\ \E x_coord \in BisectXs, clear_inner \in BOOLEAN, clear_outer \in BOOLEAN,
          z_tilt \in {NoTilt} \cup BridgeSlants :
          LET call == Call(x_coord, clear_inner, clear_outer, z_tilt, NoTranslation)
              cut == BisectCalled(Mesh(active), loc[active], call)
          IN /\ verts' = [verts EXCEPT ![active] = cut.verts]
             /\ edges' = [edges EXCEPT ![active] = cut.edges]
             /\ sel' = [sel EXCEPT ![active] = cut.cut]
             /\ cuts' = Append(cuts, call)
    /\ log' = log \o <<"bisect">>
    /\ pc' = "bisected"
    /\ UNCHANGED <<cur, params, exists, loc, picked, bottom_of_bridge, nosepad, gap,
                   stitched, solid, after_cut, unaligned, loops>>

NextBisect == BisectOnce

SpecBisect == InitBisect /\ [][NextBisect]_vars

\* ------------------------------------- the resolution bisections on their own
\* bisect_bridge_for_resolution is a function of bridge_width and bridge_slant:
\* here it is run on the bar, uncut, for every width and slant of a grid
MaxWidth == 6

MaxSlant == 3

Widths == {k * Unit : k \in 1..MaxWidth}

Slants == {Rat(n, d) : n \in 1..MaxSlant, d \in 1..MaxSlant}

InitResolution ==
    /\ pc = "bisect_bridge_for_resolution"
    /\ cur = "none"
    /\ shape = "bar"
    /\ bridge_width \in Widths
    /\ bridge_slant \in Slants
    /\ nosepad_shrink_amount = 30
    /\ exists = Objects
    /\ verts = [o \in Objects |-> BaseSolid(shape, o)]
    /\ edges = [o \in Objects |-> SolidEdges(shape)]
    /\ loc = [o \in Objects |-> Zero3]
    /\ sel = [o \in Objects |-> {}]
    /\ active = "bridge"
    /\ picked = {"bridge"}
    /\ mode = "EDIT"
    /\ bottom_of_bridge = Unset
    /\ xrange = [s \in Lenses |-> Unset]
    /\ cache = [s \in Lenses |-> <<>>]
    /\ peak = [s \in Lenses |-> Unset]
    /\ stage = [s \in Lenses |-> "Idle"]
    /\ deformed = [s \in Lenses |-> <<>>]
    /\ before = [s \in Lenses |-> <<>>]
    /\ gap = Unset
    /\ stitched = {}
    /\ log = <<>>
    /\ solid = CoordsOf(verts["bridge"])
    /\ after_cut = [o \in Objects |-> Unset]
    /\ unaligned = [o \in Objects |-> Zero3]
    /\ loops = [s \in Lenses |-> Unset]
    /\ cuts = <<>>
    /\ ran = <<>>

NextResolution == BisectBridgeForResolution

SpecResolution == InitResolution /\ [][NextResolution]_vars

\* ------------------------------------------------ the nosepad range on its own
\* find_nosepad_x_coord_range is a function of the x coordinates of a lens
\* piece: here each lens piece is two vertices, the left one with every extent
\* of a grid, the right one with the mirror image of it or with the mirror
\* image moved along x
MaxExtent == 5

ExtentStep == Unit \div 2

Extents == {k * ExtentStep : k \in -MaxExtent..MaxExtent}

TwoVertices(lo, hi, piece) == <<Vertex(hi, -Unit, 0, piece), Vertex(lo, Unit, 0, piece)>>

InitRange ==
    /\ pc = "find_nosepad_x_coord_range"
    /\ cur = "none"
    /\ shape = "bar"
    /\ bridge_width = 2 * Unit
    /\ bridge_slant = Rat(1, 2)
    /\ nosepad_shrink_amount = 30
    /\ exists = Lenses
    /\ \E lo \in Extents, hi \in Extents, moved \in {0, ExtentStep} :
          /\ lo <= hi
          /\ verts = [o \in Objects |->
                         IF o = "left" THEN TwoVertices(lo, hi, o)
                         ELSE IF o = "right" THEN TwoVertices(moved - hi, moved - lo, o)
                         ELSE <<>>]
    /\ edges = [o \in Objects |-> <<>>]
    /\ loc = [o \in Objects |-> Zero3]
    /\ sel = [o \in Objects |-> {}]
    /\ active = "left"
    /\ picked = {"left"}
    /\ mode = "OBJECT"
    /\ bottom_of_bridge = Unset
    /\ xrange = [s \in Lenses |-> Unset]
    /\ cache = [s \in Lenses |-> <<>>]
    /\ peak = [s \in Lenses |-> Unset]
    /\ stage = [s \in Lenses |-> "Idle"]
    /\ deformed = [s \in Lenses |-> <<>>]
    /\ before = [s \in Lenses |-> <<>>]
    /\ gap = Unset
    /\ stitched = {}
    /\ log = <<>>
    /\ solid = {}
    /\ after_cut = [o \in Objects |-> Unset]
    /\ unaligned = [o \in Objects |-> Zero3]
    /\ loops = [s \in Lenses |-> Unset]
    /\ cuts = <<>>
    /\ ran = <<>>

\* find_left_nosepad_x_coord_range(left_lens_object) and
\* find_right_nosepad_x_coord_range(right_lens_object)
FindNosepadXCoordRanges ==
    /\ pc = "find_nosepad_x_coord_range"
    /\ Runs(select_object_steps("left") \o select_object_steps("right"), Lenses)
    /\ xrange' = [s \in Lenses |->
                     Value(find_nosepad_x_coord_range(verts[s], s = "left"))]
    /\ picked' = {"right"}
    /\ pc' = "cache_non_nosepad_vertices"
    /\ UNCHANGED <<cur, params, exists, verts, edges, loc, sel, bottom_of_bridge,
                   cache, peak, stage, deformed, before, gap, stitched, log, history>>

NextRange == FindNosepadXCoordRanges

SpecRange == InitRange /\ [][NextRange]_vars

\* ===================================================================== properties

\* the lens piece whose nosepad has just been restored
JustRestored(s) == pc = "bend_lens_area" /\ cur = s /\ stage[s] = "Restored"

StageOrder ==
    {<<"Idle", "RegionComputed">>, <<"RegionComputed", "Shrunk">>,
     <<"Shrunk", "PeakSelected">>, <<"PeakSelected", "Extruded">>,
     <<"Extruded", "Restored">>}

\* C2: the nosepad of each lens piece goes through Idle, RegionComputed,
\* Shrunk, PeakSelected, Extruded, Restored in that order, none skipped or
\* repeated: every change of a piece's stage is one of the five steps of that
\* chain, so the shrink comes before the peak selection, the extrusion after
\* it, and the restoration last
C2_StageOrder ==
    [][\A s \in Lenses : stage'[s] # stage[s] => <<stage[s], stage'[s]>> \in StageOrder]_vars

\* the lens piece that has been shrunk and is about to be extruded: shrinking
\* moves vertices along y only, so x and z are still those the selection saw
JustShrunk(s) == pc = "extrude_nosepad_peak" /\ cur = s /\ Len(deformed[s]) = 1

\* C3: the shrink deformation is applied to exactly the vertices of the
\* nosepad x-range whose z is below bottom_of_bridge, and the extrusion is
\* applied to those of the x-range whose z lies in the peak band
C3_SelectionSets ==
    \A s \in Lenses :
        JustShrunk(s) =>
            LET V == verts[s]
                r == xrange[s].val
                region == {i \in Indices(V) : in_range(r.max_x, r.min_x, V[i].x)}
            IN /\ deformed[s][1].op = "shrink_fatten"
               /\ deformed[s][1].on = {i \in region : V[i].z < bottom_of_bridge.val}
               /\ sel[s] = {i \in region :
                               in_range(peak[s].val.max_z, peak[s].val.min_z, V[i].z)}

\* C4: with distance = bottom_of_bridge - bottom_of_nosepad, the peak band is
\* [peak - 0.05 distance, peak + 0.05 distance] about peak = bottom_of_bridge
\* - 0.4 distance; when bottom_of_bridge >= bottom_of_nosepad its lower end is
\* not above its upper end and the band lies inside [bottom_of_nosepad,
\* bottom_of_bridge]
C4_PeakBand ==
    \A s \in Lenses :
        peak[s].set =>
            LET bottom == bottom_of_bridge.val
                bottom_of_nosepad == peak[s].val.bottom_of_nosepad
                distance == bottom - bottom_of_nosepad
                upper == peak[s].val.max_z
                lower == peak[s].val.min_z
            IN /\ 100 * upper = 100 * bottom - 40 * distance + 5 * distance
               /\ 100 * lower = 100 * bottom - 40 * distance - 5 * distance
               /\ bottom >= bottom_of_nosepad =>
                      /\ lower <= upper
                      /\ bottom_of_nosepad <= lower
                      /\ upper <= bottom

\* a band computed for a nosepad region that reaches below the bridge
C4_Witness ==
    \E s \in Lenses :
        /\ peak[s].set
        /\ bottom_of_bridge.val > peak[s].val.bottom_of_nosepad
        /\ peak[s].val.min_z < peak[s].val.max_z
        /\ pc = "select_nosepad_peak_vertices"

\* the three pieces have all been cut out of their copy of the base solid
AllCut == \A o \in Objects : after_cut[o].set

\* the side of a point of the left boundary plane x = -(bridge_width / 2) -
\* bridge_slant z, and of the right one x = bridge_width / 2 + bridge_slant z
LeftSide(p) == PlaneSide(p, -(bridge_width \div 2), bridge_slant, NoTranslation)

RightSide(p) == PlaneSide(p, bridge_width \div 2, Neg(bridge_slant), NoTranslation)

OffPlanes(p) == LeftSide(p) # 0 /\ RightSide(p) # 0

\* at or above the height where the two boundary planes cross:
\* bridge_width / 2 + bridge_slant z >= 0
AboveApex(p) == bridge_slant.d * (bridge_width \div 2) + bridge_slant.n * p.z >= 0

KeptBy(p) == {o \in Objects : p \in after_cut[o].val}

\* the pieces keep what lies on their side of the two planes
CutOnPlanes ==
    \A p \in solid :
        OffPlanes(p) =>
            /\ p \in after_cut["left"].val <=> LeftSide(p) < 0
            /\ p \in after_cut["bridge"].val <=> (LeftSide(p) > 0 /\ RightSide(p) < 0)
            /\ p \in after_cut["right"].val <=> RightSide(p) > 0

\* C5: the left lens is cut on the bridge's left boundary plane and the right
\* lens on its right one, and every point of the base solid that is on neither
\* plane and at or above the height where the planes cross is kept by exactly
\* one of the three pieces; a point below that height is kept by one lens or
\* by both, and never by the bridge
C5_PartitionAboveApex ==
    AllCut =>
        /\ CutOnPlanes
        /\ \A p \in solid :
               OffPlanes(p) =>
                   IF AboveApex(p)
                   THEN Cardinality(KeptBy(p)) = 1
                   ELSE KeptBy(p) # {} /\ KeptBy(p) \subseteq Lenses

\* C5, as stated: every point of the base solid that is on neither plane is
\* kept by exactly one of the three pieces
C5_Partition ==
    AllCut => \A p \in solid : OffPlanes(p) => Cardinality(KeptBy(p)) = 1

\* the three pieces are cut and each of them has kept a point off the planes
\* and above the crossing of the planes
C5_Witness ==
    /\ AllCut
    /\ pc = "find_nosepad_x_coord_range"
    /\ \A o \in Objects :
          \E p \in solid : OffPlanes(p) /\ AboveApex(p) /\ KeptBy(p) = {o}

Mirror(p) == [p EXCEPT !.x = -p.x]

\* C6: the left lens cut and the right lens cut are mirror images about
\* x = 0: a point is kept by the left lens cut exactly when its mirror image
\* is kept by the right lens cut, the vertices the cuts made included
C6_MirrorImage ==
    (after_cut["left"].set /\ after_cut["right"].set) =>
        /\ \A p \in solid :
               p \in after_cut["left"].val <=> Mirror(p) \in after_cut["right"].val
        /\ {Mirror(p) : p \in after_cut["left"].val} = after_cut["right"].val

\* both lenses are cut; the left one has kept a point of the base solid that
\* the right one dropped, and a vertex the cut made
C6_Witness ==
    /\ after_cut["left"].set /\ after_cut["right"].set
    /\ \E p \in solid :
          /\ p \in after_cut["left"].val
          /\ p \notin after_cut["right"].val
          /\ Mirror(p) \in solid
          /\ p.x # 0
    /\ \E p \in after_cut["left"].val : p \notin solid /\ LeftSide(p) = 0

\* align has just moved the pieces apart
JustAligned == pc = "merge_objects" /\ cur = "left" /\ stitched = {} /\ gap.set

\* how far align has moved an object along x
MovedX(o) == loc[o].x - unaligned[o].x

\* both seams are opened by gap, relative to where the pieces were
SeamsOpened ==
    /\ gap.val > 0
    /\ MovedX("bridge") - MovedX("left") = gap.val
    /\ MovedX("right") - MovedX("bridge") = gap.val

\* C7: after align both seams are opened by the same gap along x, neither is
\* left flush or overlapping, and the gap is 4% of the extent along x of the
\* bridge piece as it was cut (bridge_object.dimensions[0])
C7_AlignmentGapOfBridgePiece ==
    JustAligned =>
        /\ SeamsOpened
        /\ 100 * gap.val = 4 * DimensionX(verts["bridge"])

\* C7, as stated: after align both seams are opened by the same gap along x,
\* and the gap is 4% of the bridge width
C7_AlignmentGap ==
    JustAligned =>
        /\ SeamsOpened
        /\ 100 * gap.val = 4 * bridge_width

\* the pieces have been aligned, the bridge piece being wider than bridge_width
C7_Witness ==
    /\ JustAligned
    /\ DimensionX(verts["bridge"]) > bridge_width
    /\ loc["right"].x - unaligned["right"].x = 2 * gap.val

\* the open boundary vertices of the seam on the left of the bridge, in the
\* frame being stitched: the cut loop of the left lens and the vertices of
\* the bridge on its left boundary plane; and the same on the right
LeftSeam(V) ==
    {i \in Indices(V) :
        V[i].nm /\ (V[i].of = "left" \/ (V[i].of = "bridge" /\ LeftSide(V[i]) = 0))}

RightSeam(V) ==
    {i \in Indices(V) :
        V[i].nm /\ (V[i].of = "right" \/ (V[i].of = "bridge" /\ RightSide(V[i]) = 0))}

SeamOf(lens, V) == IF lens = "left" THEN LeftSeam(V) ELSE RightSeam(V)

\* every vertex the clearing cuts left on a boundary plane lies strictly
\* above the height where the planes cross
SeamsAboveApex ==
    \A o \in Objects :
        \A p \in after_cut[o].val :
            (LeftSide(p) = 0 \/ RightSide(p) = 0) =>
                bridge_slant.d * (bridge_width \div 2) + bridge_slant.n * p.z > 0

\* C8: when the cut loops lie strictly above the height where the boundary
\* planes cross, the vertices selected when bridge_gap runs are exactly the
\* open boundary vertices of the seam being stitched, the left one after the
\* left lens is merged and the right one after the right lens is merged
C8_SeamSideAboveApex ==
    (pc = "bridge_gap" /\ SeamsAboveApex) => sel[active] = SeamOf(cur, verts[active])

\* C8, as stated: the vertices selected when bridge_gap runs are exactly the
\* open boundary vertices of the seam being stitched
C8_SeamSide ==
    pc = "bridge_gap" => sel[active] = SeamOf(cur, verts[active])

\* the left seam is about to be stitched: vertices of the left lens and of
\* the bridge are selected, and the right loop of the bridge is open and not
\* selected
C8_Witness ==
    /\ pc = "bridge_gap"
    /\ cur = "left"
    /\ SeamsAboveApex
    /\ \E i \in sel[active] : verts[active][i].of = "left"
    /\ \E i \in sel[active] : verts[active][i].of = "bridge"
    /\ \E i \in Indices(verts[active]) :
          /\ verts[active][i].nm
          /\ i \notin sel[active]
          /\ RightSide(verts[active][i]) = 0

\* where in the log the merges, the stitches, and the origin moves and bends are
Joins == {i \in Indices(log) : log[i] = "join"}

Stitches == {i \in Indices(log) : log[i] = "bridge_edge_loops"}

OriginsAndBends == {i \in Indices(log) : log[i] \in {"origin_set", "modifier_apply"}}

PiecesIn(V) == {V[i].of : i \in Indices(V)}

\* C9: the left lens is merged with the bridge and stitched before the right
\* lens is merged; the right lens is merged into the partial frame, which
\* holds the left lens; a merge is followed by one stitch before any other
\* merge, origin move or bend; the origin move and the bend of the whole
\* frame come after both stitches
C9_MergeStitchOrder ==
    /\ Cardinality(Joins) <= 2
    /\ Cardinality(Stitches) <= Cardinality(Joins)
    /\ \A j \in Joins :
          \A i \in Joins \cup OriginsAndBends :
              i > j => Cardinality({k \in Stitches : j < k /\ k < i}) >= 1
    /\ \A j \in Joins :
          \A i \in Joins :
              i > j => Cardinality({k \in Stitches : j < k /\ k < i}) = 1
    /\ \A i \in OriginsAndBends :
          (\E j \in Joins : j < i) => Cardinality({k \in Stitches : k < i}) = 2
    /\ (pc = "merge_objects" /\ cur = "right") =>
          /\ exists = {"bridge", "right"}
          /\ "left" \in stitched
          /\ PiecesIn(verts["bridge"]) = {"bridge", "left"}
    /\ "right" \in stitched => "left" \in stitched
    /\ pc \in {"bend_object", "done"} => stitched = Lenses /\ exists = {"bridge"}

\* the frame is finished: two merges, each followed by its stitch, then the
\* origin move and the bend
C9_Witness ==
    /\ pc = "done"
    /\ Cardinality(Joins) = 2
    /\ Cardinality(Stitches) = 2
    /\ log[Len(log)] = "modifier_apply"
    /\ PiecesIn(verts["bridge"]) = Objects

ClearsBothSides ==
    /\ cuts' # cuts
    /\ cuts'[Len(cuts')].clear_inner
    /\ cuts'[Len(cuts')].clear_outer

\* C11: a call of bisect with clear_inner and clear_outer both true is
\* rejected as an error: the run stops there, and the vertices and the edges
\* of the mesh are left as they were
C11_BothSidesClearedRejected ==
    [][ClearsBothSides => (pc' = "aborted" /\ verts' = verts /\ edges' = edges)]_vars

\* where in the log the bisections and the welds are
Bisections == {i \in Indices(log) : log[i] = "bisect"}

Welds == {i \in Indices(log) : log[i] = "remove_doubles"}

\* C12: when the pipeline ends, the last bisection and the last merge have
\* each been followed by a weld (remove_duplicate_vertices)
C12_WeldAfterTopologyChanges ==
    pc = "done" => \A i \in Bisections \cup Joins : \E w \in Welds : w > i

\* the pieces have been made: duplicate_object has returned
Duplicated == pc \notin {"create_mesh_from_svg", "reorient_for_easier_manipulation",
                         "duplicate_object"}

\* the objects that a join has merged away
Consumed == Objects \ exists

\* what holds of the pieces in every state
PiecesKept ==
    /\ ~Duplicated => exists = {"right"}
    /\ pc = "cut_bridge" =>
          /\ exists = Objects
          /\ \A o \in Objects : CoordsOf(verts[o]) = solid /\ PiecesIn(verts[o]) = {o}
    /\ Duplicated =>
          /\ "bridge" \in exists
          /\ Cardinality(Joins) = Cardinality(Consumed)
          /\ \A o \in Consumed : verts[o] = <<>>
          /\ \A o \in exists \ {"bridge"} : PiecesIn(verts[o]) \subseteq {o}
          /\ PiecesIn(verts["bridge"]) \subseteq {"bridge"} \cup Consumed
    /\ pc = "done" =>
          /\ exists = {"bridge"}
          /\ Cardinality(Joins) = 2
          /\ PiecesIn(verts["bridge"]) = Objects

\* what holds of every step: a piece that is merged away does not come
\* back; a join takes one lens piece away and leaves its vertices, along with
\* those the other object had, in that object; any other step works on the
\* mesh of one object
PiecesStep ==
    /\ Duplicated => exists' \subseteq exists
    /\ pc = "merge_objects" =>
          /\ exists \ exists' = {cur}
          /\ cur \in Lenses
          /\ Len(verts'["bridge"]) = Len(verts["bridge"]) + Len(verts[cur])
          /\ PiecesIn(verts'["bridge"]) = PiecesIn(verts["bridge"]) \cup PiecesIn(verts[cur])
    /\ pc \notin {"duplicate_object", "merge_objects"} =>
          Cardinality({o \in Objects : verts'[o] # verts[o]}) <= 1

\* C13: the pipeline makes three pieces, distinct objects whose meshes are
\* cut and shaped one at a time; each lens piece is merged away by one join
\* and the bridge object takes its geometry; when the pipeline ends one object
\* is left, and it holds vertices of all three pieces
C13_PieceLifecycle == []PiecesKept /\ [][PiecesStep]_vars

\* a finished run: one object, two joins, the vertices of three pieces
C13_Witness ==
    /\ pc = "done"
    /\ exists = {"bridge"}
    /\ Cardinality(Joins) = 2
    /\ PiecesIn(verts["bridge"]) = Objects
    /\ \A o \in Lenses : verts[o] = <<>>

\* the bridge piece is fully formed: cut twice, bisected for resolution,
\* and protruded last
BridgeFormed ==
    /\ Cardinality(Bisections) = NumberOfSegments + 3
    /\ log[Len(log)] = "translate"

\* no lens piece has been shaped: each is the base solid still
LensesUntouched ==
    \A s \in Lenses : stage[s] = "Idle" /\ CoordsOf(verts[s]) = solid

\* what holds of bottom_of_bridge in every state: until it is computed no lens
\* piece is shaped, and each peak band comes from it
BottomOfBridgeUsed ==
    /\ (Duplicated /\ ~bottom_of_bridge.set) => LensesUntouched
    /\ \A s \in Lenses :
          peak[s].set =>
              /\ bottom_of_bridge.set
              /\ LET band == find_nosepad_peak_vertices_z_range(
                                  bottom_of_bridge.val, peak[s].val.bottom_of_nosepad)
                 IN peak[s].val.max_z = band.max_z /\ peak[s].val.min_z = band.min_z

\* what holds of every step: the one that computes bottom_of_bridge finds
\* it not yet computed, the bridge formed and the lenses untouched, and makes
\* it the least z of the bridge piece; no other step changes it
BottomOfBridgeStep ==
    IF pc = "find_min_z_coord_of_object" /\ pc' # "aborted"
    THEN /\ ~bottom_of_bridge.set
         /\ BridgeFormed
         /\ LensesUntouched
         /\ bottom_of_bridge' =
                Value(MinOf({verts["bridge"][i].z : i \in Indices(verts["bridge"])}))
    ELSE bottom_of_bridge' = bottom_of_bridge

\* C14: bottom_of_bridge is computed once, from the bridge piece when it is
\* fully formed and before either lens piece is shaped; the nosepads of both
\* lens pieces are placed with that value, and nothing changes it afterwards
C14_BottomOfBridgeOnce == []BottomOfBridgeUsed /\ [][BottomOfBridgeStep]_vars

\* both nosepads have been placed, with bands from one bottom_of_bridge
C14_Witness ==
    /\ bottom_of_bridge.set
    /\ \A s \in Lenses : peak[s].set /\ stage[s] = "Restored"
    /\ peak["left"].val.max_z = peak["right"].val.max_z

\* the x-extent of a lens piece
ExtentOf(s) ==
    [max_x |-> MaxOf({verts[s][i].x : i \in Indices(verts[s])}),
     min_x |-> MinOf({verts[s][i].x : i \in Indices(verts[s])})]

\* 18% of a width
NosepadShare(w) == (18 * w) \div 100

\* C15: the nosepad x-range of the left lens piece is [max_x - 0.18 w, max_x]
\* and that of the right lens piece [min_x, min_x + 0.18 w], w being the
\* width max_x - min_x of the piece; each lies inside the x-extent of its
\* piece, and when the two extents are mirror images about x = 0 so are the
\* two ranges
C15_NosepadXRange ==
    (xrange["left"].set /\ xrange["right"].set) =>
        LET l == ExtentOf("left")
            r == ExtentOf("right")
            xl == xrange["left"].val
            xr == xrange["right"].val
        IN /\ xl.max_x = l.max_x
           /\ xl.min_x = l.max_x - NosepadShare(l.max_x - l.min_x)
           /\ xr.min_x = r.min_x
           /\ xr.max_x = r.min_x + NosepadShare(r.max_x - r.min_x)
           /\ l.min_x <= xl.min_x /\ xl.min_x <= xl.max_x
           /\ xr.min_x <= xr.max_x /\ xr.max_x <= r.max_x
           /\ (r.min_x = -l.max_x /\ r.max_x = -l.min_x) =>
                  (xr.min_x = -xl.max_x /\ xr.max_x = -xl.min_x)

\* the ranges, 0.18 mm wide, of two lens pieces 1 mm wide that mirror each other
C15_Witness ==
    /\ xrange["left"].set /\ xrange["right"].set
    /\ ExtentOf("left") = [max_x |-> -Unit, min_x |-> -2 * Unit]
    /\ ExtentOf("right") = [max_x |-> 2 * Unit, min_x |-> Unit]
    /\ xrange["left"].val = [max_x |-> -Unit, min_x |-> -Unit - 18]
    /\ xrange["right"].val = [max_x |-> Unit + 18, min_x |-> Unit]

\* the order of two quotients with positive denominators
Less(a, b) == a.n * b.d < b.n * a.d

Same(a, b) == a.n * b.d = b.n * a.d

\* z of the line where the two boundary planes of the bridge meet:
\* -(bridge_width / 2) / bridge_slant
ApexZ == Rat(-bridge_width * bridge_slant.d, 2 * bridge_slant.n)

\* C16: every plane cut by bisect_bridge_for_resolution passes through the
\* line x = 0, z = -(bridge_width / 2) / bridge_slant; its slant lies strictly
\* between -bridge_slant and bridge_slant; the slants are symmetric about 0
\* and 0 is one of them; and no cut clears a side, so that every vertex the
\* piece had is still there
C16_ResolutionPlanes ==
    pc = "extrude_bridge" =>
        /\ Len(cuts) = NumberOfSegments + 1
        /\ \A i \in Indices(cuts) :
              /\ cuts[i].x_coord = 0
              /\ Defined(cuts[i].z_translation)
              /\ Same(cuts[i].z_translation, ApexZ)
              /\ cuts[i].z_tilt.d > 0
              /\ Less(Neg(bridge_slant), cuts[i].z_tilt)
              /\ Less(cuts[i].z_tilt, bridge_slant)
              /\ \E j \in Indices(cuts) : Same(cuts[j].z_tilt, Neg(cuts[i].z_tilt))
              /\ ~cuts[i].clear_inner
              /\ ~cuts[i].clear_outer
        /\ \E i \in Indices(cuts) : cuts[i].z_tilt.n = 0
        /\ solid \subseteq CoordsOf(verts["bridge"])

\* the bar bisected for a bridge 4 mm wide with slant 2/3: the planes meet
\* 3 mm down, and new vertices have been cut
C16_Witness ==
    /\ pc = "extrude_bridge"
    /\ bridge_width = 4 * Unit
    /\ bridge_slant = Rat(2, 3)
    /\ Len(cuts) = NumberOfSegments + 1
    /\ Same(cuts[1].z_translation, Rat(-3 * Unit, 1))
    /\ Cardinality(CoordsOf(verts["bridge"])) > Cardinality(solid)

\* the steps from the taking of the cache to the restoration, the restoring
\* step included
InWindow ==
    pc \in {"select_nosepad_peak_vertices", "shrink_nosepad", "extrude_nosepad_peak",
            "reset_normal_vertices"}

\* what a step has added to the log
Logged == SubSeq(log', Len(log) + 1, Len(log'))

\* what holds in every state: until the first deformation each cached index
\* is the index of the vertex whose position was cached, and in all of the
\* window every cached index is an index of the mesh
CacheDenotes ==
    /\ pc \in {"select_nosepad_peak_vertices", "shrink_nosepad"} =>
          /\ DOMAIN cache[cur] = {i \in Indices(verts[cur]) : verts[cur][i].y <= 0}
          /\ \A i \in DOMAIN cache[cur] : cache[cur][i] = Coord(verts[cur][i])
    /\ InWindow => DOMAIN cache[cur] \subseteq Indices(verts[cur])

\* what holds of every step of the window: no bisection, weld, merge or
\* duplication; the mesh keeps its vertices, in their places, and its edges;
\* and the cache is kept as it was taken
TopologyKept ==
    InWindow =>
        /\ \A k \in Indices(Logged) :
              Logged[k] \notin {"bisect", "remove_doubles", "join", "duplicate"}
        /\ Len(verts'[cur]) = Len(verts[cur])
        /\ \A i \in Indices(verts[cur]) :
              verts'[cur][i].of = verts[cur][i].of /\ verts'[cur][i].nm = verts[cur][i].nm
        /\ edges'[cur] = edges[cur]
        /\ cache' = cache
        /\ cur' = cur

\* C17: on each lens mesh no bisection, weld, merge or duplication runs
\* between the taking of the cache and the restoration, so every cached index
\* denotes, when it is written back, the vertex whose position was cached
C17_IndicesStable == []CacheDenotes /\ [][TopologyKept]_vars

\* a lens piece just restored: a vertex that the deformations had moved is
\* back where the cache has it
C17_Witness ==
    /\ pc = "bend_lens_area"
    /\ Len(before[cur]) = Len(verts[cur])
    /\ \E i \in DOMAIN cache[cur] :
          /\ Coord(before[cur][i]) # cache[cur][i]
          /\ Coord(verts[cur][i]) = cache[cur][i]

\* the operators and writes of the stage just run
Ran == Range(ran)

\* each operator of the stage found the active object and the mode it needs
OperatorsInMode ==
    \A e \in Ran :
        /\ e.kind # "scene" => e.active \in e.pieces
        /\ e.kind = "mesh" => e.mode = "EDIT"
        /\ e.kind \in {"object", "scene"} => e.mode = "OBJECT"

AnySlants == BridgeSlants \cup {Rat(0, 1)}

InitAnySlant ==
    /\ pc = "create_mesh_from_svg"
    /\ cur = "none"
    /\ shape \in Shapes
    /\ bridge_width \in BridgeWidths
    /\ bridge_slant \in AnySlants
    /\ nosepad_shrink_amount \in ShrinkAmounts
    /\ exists = {"right"}
    /\ verts = [o \in Objects |-> <<>>]
    /\ edges = [o \in Objects |-> <<>>]
    /\ loc = [o \in Objects |-> Zero3]
    /\ sel = [o \in Objects |-> {}]
    /\ active = "right"
    /\ picked = {"right"}
    /\ mode = "OBJECT"
    /\ bottom_of_bridge = Unset
    /\ xrange = [s \in Lenses |-> Unset]
    /\ cache = [s \in Lenses |-> <<>>]
    /\ peak = [s \in Lenses |-> Unset]
    /\ stage = [s \in Lenses |-> "Idle"]
    /\ deformed = [s \in Lenses |-> <<>>]
    /\ before = [s \in Lenses |-> <<>>]
    /\ gap = Unset
    /\ stitched = {}
    /\ log = <<>>
    /\ solid = {}
    /\ after_cut = [o \in Objects |-> Unset]
    /\ unaligned = [o \in Objects |-> Zero3]
    /\ loops = [s \in Lenses |-> Unset]
    /\ cuts = <<>>
    /\ ran = <<>>

SpecAnySlant == InitAnySlant /\ [][Next]_vars

\* the stages up to the call of compute_convergence_point, and the failure
UpToConvergencePoint ==
    {"create_mesh_from_svg", "reorient_for_easier_manipulation", "duplicate_object",
     "cut_bridge", "bisect_bridge_for_resolution", "ZeroDivisionError"}

\* what is left when the script has failed: a bridge piece cut by the two
\* bisections of cut_bridge and by no other, two lens pieces that are the base
\* solid still, three objects and no join
FailedInFormBridge ==
    /\ after_cut["bridge"].set
    /\ CoordsOf(verts["bridge"]) = after_cut["bridge"].val
    /\ Cardinality(Bisections) = 2
    /\ cuts = <<>>
    /\ LensesUntouched
    /\ \A s \in Lenses : ~xrange[s].set /\ ~peak[s].set
    /\ exists = Objects
    /\ \A o \in Objects : PiecesIn(verts[o]) = {o}
    /\ Joins = {}

\* what holds of the slant in every state
ZeroSlantStops ==
    /\ bridge_slant.n = 0 =>
          /\ pc \in UpToConvergencePoint
          /\ ~Defined(compute_convergence_point(bridge_width, bridge_slant))
    /\ pc = "ZeroDivisionError" => bridge_slant.n = 0 /\ FailedInFormBridge
    /\ (bridge_slant.n > 0 /\ bridge_width > 0) =>
          LET z == compute_convergence_point(bridge_width, bridge_slant)
          IN Defined(z) /\ z.d > 0 /\ z.n < 0

\* the script fails nowhere but at the call of compute_convergence_point in
\* bisect_bridge_for_resolution, and with a zero slant never goes past it
FailsAtConvergencePoint ==
    /\ pc' = "ZeroDivisionError" => pc \in {"bisect_bridge_for_resolution", "ZeroDivisionError"}
    /\ (bridge_slant.n = 0 /\ pc = "bisect_bridge_for_resolution") => pc' \in {pc, "ZeroDivisionError"}

\* C19: with bridge_slant = 0 the pipeline does not complete: it fails in
\* compute_convergence_point, a division by zero, during form_bridge, when the
\* bridge piece has been cut, no lens piece has been shaped and nothing has
\* been merged, so that three separate objects remain; for every
\* bridge_slant > 0 and bridge_width > 0 the convergence z is defined and
\* negative
C19_ZeroSlantFails == []ZeroSlantStops /\ [][FailsAtConvergencePoint]_vars

\* a run with a zero slant has failed after cut_bridge
C19_Witness ==
    /\ pc = "ZeroDivisionError"
    /\ bridge_slant.n = 0
    /\ after_cut["bridge"].set
    /\ exists = Objects

====
